---- MODULE Spec2Model ----
(***************************************************************************)
(* Model of the two Solana Action providers of this repository:            *)
(*   src/src/app/api/actions/memo/route.ts          (Memo provider)        *)
(*   src/src/app/api/actions/transfer-sol/route.ts  (Transfer provider)    *)
(*   src/src/app/api/actions/transfer-sol/const.ts  (defaults)             *)
(*                                                                         *)
(* Text is a sequence of one-character strings, so that base58 decoding,   *)
(* parseFloat and String.includes are computed and not assumed.  An        *)
(* optional value (undefined / null) is a sequence of length at most one:  *)
(* <<>> is "absent", <<v>> is "present with value v".                      *)
(***************************************************************************)
EXTENDS Integers, Sequences, FiniteSets, TLC

-----------------------------------------------------------------------------
(* Bounds of the model.                                                    *)

\* longest signature page the mocked RPC returns (the code asks for <= 100)
MaxPageLen == 2
\* number of non-empty signature pages the mocked RPC serves per scan
MaxPages == 2
\* largest batchSize argument tried for checkForMessage
MaxBatchSize == 2
\* largest block time (seconds) the mocked RPC reports
MaxBlockTime == 3

-----------------------------------------------------------------------------
(* Text literals of the source.                                            *)

Base58Alphabet == <<"1","2","3","4","5","6","7","8","9","A","B","C","D","E","F","G","H","J","K","L","M","N","P","Q","R","S","T","U","V","W","X","Y","Z","a","b","c","d","e","f","g","h","i","j","k","m","n","o","p","q","r","s","t","u","v","w","x","y","z">>

\* const.ts:4, the devnet wallet
DefaultAddrStr == <<"A","E","z","Z","q","X","y","P","x","W","J","r","j","r","a","u","S","c","D","W","M","y","e","w","n","W","h","v","6","X","w","m","w","q","G","d","X","D","5","v","D","V","d","4">>

\* memo/route.ts:122, the first argument of the call of checkForMessage
Placeholder == <<"Y","O","U","R","_","A","C","C","O","U","N","T","_","O","R","_","P","R","O","G","R","A","M","_","P","U","B","L","I","C","_","K","E","Y">>

\* memo/route.ts:122,124,127
InitialMessage == <<"i","n","i","t","i","a","l"," ","m","e","s","s","a","g","e">>

\* memo/route.ts:124
SecondMessage == <<"s","e","c","o","n","d"," ","m","e","s","s","a","g","e">>

-----------------------------------------------------------------------------
(* new PublicKey(string) and PublicKey.toBase58() of @solana/web3.js:      *)
(* base58 over byte arrays, as bs58 computes it.                           *)

Min(a, b) == IF a < b THEN a ELSE b

IsBase58Char(c) == \E i \in 1..Len(Base58Alphabet) : Base58Alphabet[i] = c

CharValue(c) == (CHOOSE i \in 1..Len(Base58Alphabet) : Base58Alphabet[i] = c) - 1

RECURSIVE Reverse(_)
Reverse(s) == IF s = <<>> THEN <<>> ELSE Append(Reverse(Tail(s)), Head(s))

RECURSIVE LeadingCount(_, _)
LeadingCount(s, x) ==
    IF s # <<>> /\ Head(s) = x THEN 1 + LeadingCount(Tail(s), x) ELSE 0

\* digits (little-endian, base `base`) := digits * mul + carry
RECURSIVE MulAdd(_, _, _, _)
MulAdd(digits, mul, carry, base) ==
    IF digits = <<>>
    THEN IF carry = 0 THEN <<>>
         ELSE <<carry % base>> \o MulAdd(<<>>, mul, carry \div base, base)
    ELSE LET v == Head(digits) * mul + carry
         IN  <<v % base>> \o MulAdd(Tail(digits), mul, v \div base, base)

\* the number a text of base58 characters stands for, as little-endian bytes
RECURSIVE Base58Number(_, _)
Base58Number(s, acc) ==
    IF s = <<>> THEN acc
    ELSE Base58Number(Tail(s), MulAdd(acc, 58, CharValue(Head(s)), 256))

\* the number a byte array stands for, as little-endian base58 digits
RECURSIVE BytesNumber(_, _)
BytesNumber(bytes, acc) ==
    IF bytes = <<>> THEN acc
    ELSE BytesNumber(Tail(bytes), MulAdd(acc, 256, Head(bytes), 58))

\* bs58.decode: every leading "1" is a zero byte, the rest is the number
Bs58Decode(s) ==
    [i \in 1..LeadingCount(s, "1") |-> 0] \o Reverse(Base58Number(s, <<>>))

\* bs58.encode
Bs58Encode(bytes) ==
    [i \in 1..LeadingCount(bytes, 0) |-> "1"]
        \o [i \in 1..Len(BytesNumber(bytes, <<>>)) |->
               Base58Alphabet[Reverse(BytesNumber(bytes, <<>>))[i] + 1]]

PUBLIC_KEY_LENGTH == 32

\* a valid key: 32 zero bytes
SystemProgramStr == [k \in 1..PUBLIC_KEY_LENGTH |-> "1"]

\* base58 characters, but three bytes only
ShortKeyStr == <<"a","b","c">>

\* the texts the model hands to new PublicKey
WellFormedAccounts == {DefaultAddrStr, SystemProgramStr}

MalformedAccounts == {<<>>, ShortKeyStr, Placeholder}

\* bs58.decode(DefaultAddrStr)
DefaultAddrBytes == <<137,78,210,183,90,245,220,92,26,27,162,237,230,32,121,113,158,133,19,53,153,61,29,60,123,123,132,71,6,166,28,203>>

\* bs58.decode of each of these texts, tabled: <<bytes>>, or <<>> where
\* bs58.decode throws (a character outside the alphabet).  Init checks the
\* table against Bs58Decode and Bs58Encode.
DecodedTable ==
    { <<DefaultAddrStr, <<DefaultAddrBytes>>>>,
      <<SystemProgramStr, <<[k \in 1..PUBLIC_KEY_LENGTH |-> 0]>>>>,
      <<ShortKeyStr, << <<1, 185, 123>> >>>>,
      << <<>>, << <<>> >> >>,
      <<Placeholder, <<>>>> }

DecodedTableChecked ==
    /\ {row[1] : row \in DecodedTable} = WellFormedAccounts \cup MalformedAccounts
    /\ \A row \in DecodedTable :
        IF \A k \in 1..Len(row[1]) : IsBase58Char(row[1][k])
        THEN /\ row[2] = <<Bs58Decode(row[1])>>
             /\ Bs58Encode(row[2][1]) = row[1]
        ELSE row[2] = <<>>

Decoded(s) == (CHOOSE row \in DecodedTable : row[1] = s)[2]

\* a mutant: the length of the decoded key is not checked
IsPublicKeyNoLength(s) == Decoded(s) # <<>>

\* new PublicKey(s) does not throw: s decodes, to 32 bytes
IsPublicKey(s) ==
    /\ Decoded(s) # <<>>
    /\ Len(Decoded(s)[1]) = PUBLIC_KEY_LENGTH

\* new PublicKey(s), held as its bytes
PublicKey(s) == Decoded(s)[1]

\* key.toBase58(), for a key made from one of these texts
ToBase58(key) == (CHOOSE row \in DecodedTable : row[2] = <<key>>)[1]

-----------------------------------------------------------------------------
(* Numbers.  A JavaScript number is NaN or a fixed-point value: `val` counts*)
(* millionths for an amount of SOL and units for lamports and micro-lamports.*)
(* Amounts in the model have at most six decimals and stay below 2^31, so   *)
(* the floating-point product amount * LAMPORTS_PER_SOL is exact.           *)

NaN == [nan |-> TRUE, val |-> 0]

Num(v) == [nan |-> FALSE, val |-> v]

\* a < b and a <= b of JavaScript: false as soon as one side is NaN
Less(a, b) == ~a.nan /\ ~b.nan /\ a.val < b.val

LessEq(a, b) == ~a.nan /\ ~b.nan /\ a.val <= b.val

\* value of the k-th decimal of an amount, in millionths
PlaceValues == <<100000, 10000, 1000, 100, 10, 1>>

\* millionths in one SOL
Scale == 10 * PlaceValues[1]

LAMPORTS_PER_SOL == 1000000000

\* const.ts:7, 0.1 SOL
DEFAULT_SOL_AMOUNT == Num(Scale \div 10)

\* amount * LAMPORTS_PER_SOL (transfer-sol/route.ts:164,175)
ToLamports(amount) ==
    IF amount.nan THEN NaN ELSE Num(amount.val * (LAMPORTS_PER_SOL \div Scale))

Digits == <<"0","1","2","3","4","5","6","7","8","9">>

IsDigit(c) == \E i \in 1..Len(Digits) : Digits[i] = c

DigitValue(c) == (CHOOSE i \in 1..Len(Digits) : Digits[i] = c) - 1

RECURSIVE DigitRun(_)
DigitRun(s) == IF s # <<>> /\ IsDigit(Head(s)) THEN 1 + DigitRun(Tail(s)) ELSE 0

RECURSIVE IntValue(_, _)
IntValue(s, acc) ==
    IF s = <<>> THEN acc ELSE IntValue(Tail(s), acc * 10 + DigitValue(Head(s)))

RECURSIVE FracValue(_, _)
FracValue(s, k) ==
    IF s = <<>> \/ k > Len(PlaceValues) THEN 0
    ELSE DigitValue(Head(s)) * PlaceValues[k] + FracValue(Tail(s), k + 1)

Drop(s, n) == SubSeq(s, n + 1, Len(s))

Take(s, n) == SubSeq(s, 1, n)

\* parseFloat: leading blanks, a sign, the longest decimal literal that
\* starts the text; NaN when no digit is found.  Exponents and "Infinity"
\* are not modelled (no input of the model uses them).
ParseFloat(str) ==
    LET s0     == Drop(str, LeadingCount(str, " "))
        neg    == s0 # <<>> /\ Head(s0) = "-"
        s1     == IF s0 # <<>> /\ Head(s0) \in {"+", "-"} THEN Tail(s0) ELSE s0
        ni     == DigitRun(s1)
        s2     == Drop(s1, ni)
        hasDot == s2 # <<>> /\ Head(s2) = "."
        nf     == IF hasDot THEN DigitRun(Tail(s2)) ELSE 0
        mag    == IntValue(Take(s1, ni), 0) * Scale
                    + (IF hasDot THEN FracValue(Take(Tail(s2), nf), 1) ELSE 0)
    IN  IF ni + nf = 0 THEN NaN ELSE Num(IF neg THEN 0 - mag ELSE mag)

-----------------------------------------------------------------------------
(* The Transfer provider's query validator.                                *)

\* searchParams.get(name) is truthy: the parameter is given and not empty
Truthy(param) == param # <<>> /\ param[1] # <<>>

\* transfer-sol/route.ts:226, `amount <= 0`
AmountTooSmall(amount) == LessEq(amount, Num(0))

Thrown(reason) == [ok |-> FALSE, reason |-> reason, amount |-> NaN, toPubkey |-> <<>>]

\* transfer-sol/route.ts:209-235; a PublicKey is held as its 32 bytes
validatedQueryParams(query) ==
    LET amount == IF Truthy(query.amount) THEN ParseFloat(query.amount[1])
                  ELSE DEFAULT_SOL_AMOUNT
    IN  IF Truthy(query.to) /\ ~IsPublicKey(query.to[1])
        THEN Thrown("Invalid input query parameter: to")
        ELSE IF AmountTooSmall(amount)
        THEN Thrown("Invalid input query parameter: amount")
        ELSE [ok |-> TRUE, reason |-> "", amount |-> amount,
              toPubkey |-> PublicKey(IF Truthy(query.to) THEN query.to[1]
                                     ELSE DefaultAddrStr)]

-----------------------------------------------------------------------------
(* The History Scanner's decisions (memo/route.ts:23-70).                  *)

\* memo/route.ts:27, the default of batchSize
DefaultBatchSize == 100

\* memo/route.ts:40, `limit: 100`
Limit == 100

\* memo/route.ts:32, Date.now() - 24 * 60 * 60 * 1000, in milliseconds
WindowStart(now) == now - 24 * 60 * 60 * 1000

\* memo/route.ts:45, `signatures.length === 0`
EmptyPage(page) == Len(page) = 0

\* `x ?? 0`
OrZero(opt) == IF opt = <<>> THEN 0 ELSE opt[1]

\* a mutant: the boundary itself ends paging
PastWindowInclusive(page, windowStart) ==
    OrZero(page[Len(page)].blockTime) * 1000 <= windowStart

\* memo/route.ts:50,
\* `(signatures[signatures.length - 1].blockTime ?? 0) * 1000 < twentyFourHoursAgo.getTime()`
PastWindow(page, windowStart) ==
    OrZero(page[Len(page)].blockTime) * 1000 < windowStart

\* memo/route.ts:47, `signatures.map(sig => sig.signature)`
SignaturesOf(page) == [k \in 1..Len(page) |-> page[k].signature]

\* a mutant: the batch loop takes one turn too many
MoreBatchesInclusive(from, all) == from <= Len(all)

\* memo/route.ts:54, `i < allSignatures.length`
MoreBatches(from, all) == from < Len(all)

\* memo/route.ts:55, `allSignatures.slice(i, i + batchSize)`
Batch(all, from, size) == SubSeq(all, from + 1, Min(from + size, Len(all)))

\* a mutant: the log line has to be the marker itself
IncludesExact(log, marker) == log = marker

\* memo/route.ts:59, `log.includes(message)`
Includes(log, marker) ==
    \E k \in 0..(Len(log) - Len(marker)) : SubSeq(log, k + 1, k + Len(marker)) = marker

\* memo/route.ts:59, `tx?.meta?.logMessages?.some(log => log.includes(message))`
HasMessage(record, marker) ==
    /\ record # <<>>
    /\ record[1].meta # <<>>
    /\ record[1].meta[1].logMessages # <<>>
    /\ \E n \in 1..Len(record[1].meta[1].logMessages[1]) :
           Includes(record[1].meta[1].logMessages[1][n], marker)

\* memo/route.ts:58-62, the scan of one batch of records
AnyHasMessage(records, marker) ==
    \E n \in 1..Len(records) : HasMessage(records[n], marker)

\* a mutant: the scan is pointed at an account that exists
MemoScanAccountConfigured == SystemProgramStr

\* memo/route.ts:122, the account the Memo POST scans
MemoScanAccount == Placeholder

\* a mutant: a failed scan is taken for a hit
MessageResultOnErrorSecond(outcome) ==
    IF outcome \in {"true", "error"} THEN SecondMessage ELSE InitialMessage

\* memo/route.ts:121-128: the payload for a scan that returned true, returned
\* false or threw
MessageResult(outcome) ==
    IF outcome = "true" THEN SecondMessage ELSE InitialMessage

-----------------------------------------------------------------------------
(* Transaction drafts and responses.                                       *)

Instruction(program, data, keys, amount) ==
    [program |-> program, data |-> data, keys |-> keys, amount |-> amount]

NoTransaction == [instructions |-> <<>>, feePayer |-> <<>>, recentBlockhash |-> <<>>]

\* a mutant: the priority-fee instruction is left out
MemoInstructionsMemoOnly(data) == <<Instruction("Memo", data, <<>>, Num(0))>>

\* memo/route.ts:132-142
MemoInstructions(data) ==
    << Instruction("ComputeBudget", <<>>, <<>>, Num(1000)),
       Instruction("Memo", data, <<>>, Num(0)) >>

\* transfer-sol/route.ts:171-177
TransferInstructions(from, to, lamports) ==
    <<Instruction("System", <<>>, <<from, to>>, lamports)>>

\* a mutant: an amount equal to the minimum is rejected too
NotRentExemptInclusive(amount, minimumBalance) ==
    LessEq(ToLamports(amount), Num(minimumBalance))

\* transfer-sol/route.ts:164, `amount * LAMPORTS_PER_SOL < minimumBalance`
NotRentExempt(amount, minimumBalance) ==
    Less(ToLamports(amount), Num(minimumBalance))

\* createPostResponse of @solana/actions needs one instruction that is no memo
HasNonMemoInstruction(draft) ==
    \E n \in 1..Len(draft.instructions) : draft.instructions[n].program # "Memo"

NoResponse == [status |-> 0, text |-> "", address |-> <<>>, json |-> <<>>]

\* new Response(text, {status: 400, headers: ACTIONS_CORS_HEADERS})
ErrorResponse(text, address) ==
    [status |-> 400, text |-> text, address |-> address, json |-> <<>>]

\* Response.json(payload, {headers: ACTIONS_CORS_HEADERS})
JsonResponse(payload) ==
    [status |-> 200, text |-> "", address |-> <<>>, json |-> <<payload>>]

\* a thrown string, and anything else that is thrown
StringError(text, address) == [isString |-> TRUE, text |-> text, address |-> address]

OtherError == [isString |-> FALSE, text |-> "", address |-> <<>>]

\* the handlers' catch (memo/route.ts:163-171, transfer-sol/route.ts:123-131,
\* 198-206)
Caught(err) ==
    IF err.isString THEN ErrorResponse(err.text, err.address)
    ELSE ErrorResponse("An unknown error occurred", <<>>)

-----------------------------------------------------------------------------
(* Inputs: what a client sends and what the mocked network answers.        *)

Origins == {"https://blink.example"}

\* a request body: not JSON at all, or JSON with or without `account`
Bodies ==
    {[json |-> FALSE, account |-> <<>>], [json |-> TRUE, account |-> <<>>]}
        \cup {[json |-> TRUE, account |-> <<a>>] :
                 a \in WellFormedAccounts \cup MalformedAccounts}

ToParams == {<<>>, << <<>> >>, <<ShortKeyStr>>, <<SystemProgramStr>>}

AmountParams ==
    { <<>>, << <<>> >>, << <<"a","b","c">> >>, << <<"0">> >>, << <<"-","1">> >>,
      << <<"1">> >>, << <<"1","a","b","c">> >>, << <<"0",".","0","0","0","5">> >> }

Queries == [to : ToParams, amount : AmountParams]

NoQuery == [to |-> <<>>, amount |-> <<>>]

NoBody == [json |-> FALSE, account |-> <<>>]

\* getMinimumBalanceForRentExemption(0): today's value, and two values around
\* one SOL
MinimumBalances == {890880, LAMPORTS_PER_SOL, LAMPORTS_PER_SOL + 1}

Blockhashes == {"blockhash1", "blockhash2"}

\* Date.now(): the window starts at 2000 ms or at 2500 ms
Nows == {24 * 60 * 60 * 1000 + 2000, 24 * 60 * 60 * 1000 + 2500}

\* blockTime of a signature: null, or seconds
BlockTimes == {<<>>} \cup {<<t>> : t \in 1..MaxBlockTime}

\* arguments of a direct call of checkForMessage
CallAddresses == {Placeholder, SystemProgramStr}

CallMessages == {<<"a","b">>, InitialMessage}

CallBatchSizes == 1..MaxBatchSize

\* log lines of the mocked transaction records
LogHit == <<"x","a","b","y">>

LogMiss == <<"a","x","b">>

LogMemo == <<"M","e","m","o",":"," ">> \o InitialMessage

Logs(lines) == <<[meta |-> <<[logMessages |-> <<lines>>]>>]>>

\* what getParsedTransactions answers for one signature: null, a record
\* without meta, without logMessages, or with log lines
TxRecords ==
    { <<>>, <<[meta |-> <<>>]>>, <<[meta |-> <<[logMessages |-> <<>>]>>]>>,
      Logs(<<>>), Logs(<<LogMiss>>), Logs(<<LogMiss, LogHit>>), Logs(<<LogMemo>>),
      Logs(<<LogMiss \o LogMiss>>) }

\* newest first: the block times that are known do not grow along a page
NewestFirst(times) ==
    \A a, b \in 1..Len(times) :
        (a < b /\ times[a] # <<>> /\ times[b] # <<>>) => times[a][1] >= times[b][1]

\* the pages getSignaturesForAddress can answer after the cursor `before`,
\* following the page `previous`
Pages(before, previous, served) ==
    LET longest == IF served < MaxPages THEN Min(Limit, MaxPageLen) ELSE 0
        first   == IF before = <<>> THEN 1 ELSE before[1] + 1
        prior   == [k \in 1..Len(previous) |-> previous[k].blockTime]
    IN  UNION { { [k \in 1..n |-> [signature |-> first + k - 1, blockTime |-> times[k]]] :
                    times \in {t \in [1..n -> BlockTimes] : NewestFirst(prior \o t)} } :
                n \in 0..longest }

\* an entry of rpcLog: the call (method, `before` cursor, batch), whether it
\* returned (ok) or rejected, what it returned (result: the length of the
\* page, the minimum balance, the blockhash), and for getParsedTransactions
\* whether a returned record mentions the marker (hit)
RpcCall(method, before, batch, ok, hit, result) ==
    [method |-> method, before |-> before, batch |-> batch, ok |-> ok,
     hit |-> hit, result |-> result]

\* a record of the mocked network has a log line that holds the marker
Mentions(record, marker) ==
    /\ record # <<>> /\ record[1].meta # <<>> /\ record[1].meta[1].logMessages # <<>>
    /\ \E n \in 1..Len(record[1].meta[1].logMessages[1]) :
        LET line == record[1].meta[1].logMessages[1][n]
        IN  \E k \in 0..Len(line) :
                /\ k + Len(marker) <= Len(line)
                /\ \A j \in 1..Len(marker) : line[k + j] = marker[j]

-----------------------------------------------------------------------------
(* State.                                                                  *)

VARIABLES
    pc,                 \* "idle", the await the request is suspended at, "done"
    req,                \* the request in progress, or the last one answered
    resp,               \* its response (status 0: none yet)
    params,             \* what validatedQueryParams returned
    account,            \* POST: the caller's PublicKey (its bytes)
    messageResult,      \* memo POST: the chosen payload
    transaction,        \* POST: the draft
    rpcLog,             \* the network calls of the request, in order
    accountPublicKey,   \* checkForMessage: its arguments ...
    message,
    batchSize,
    twentyFourHoursAgo, \* ... and its locals
    allSignatures,
    lastSignature,
    signatures,
    i,
    found               \* its outcome: "none", "true", "false", "error"

handlerVars == <<req, resp, params, account, messageResult, transaction>>

scanVars == <<accountPublicKey, message, batchSize, twentyFourHoursAgo,
              allSignatures, lastSignature, signatures, i, found>>

vars == <<pc, handlerVars, rpcLog, scanVars>>

Request(kind, origin, query, body) ==
    [kind |-> kind, origin |-> origin, query |-> query, body |-> body]

NoParams == Thrown("")

Init ==
    /\ DecodedTableChecked
    /\ pc = "idle"
    /\ req = Request("none", "", NoQuery, NoBody)
    /\ resp = NoResponse
    /\ params = NoParams
    /\ account = <<>>
    /\ messageResult = <<>>
    /\ transaction = NoTransaction
    /\ rpcLog = <<>>
    /\ accountPublicKey = <<>>
    /\ message = <<>>
    /\ batchSize = 0
    /\ twentyFourHoursAgo = 0
    /\ allSignatures = <<>>
    /\ lastSignature = <<>>
    /\ signatures = <<>>
    /\ i = 0
    /\ found = "none"

\* No state is shared between requests (the handlers keep nothing), so a
\* behaviour is the life of one request, from "idle" to "done".
NoScan ==
    /\ accountPublicKey' = <<>>
    /\ message' = <<>>
    /\ batchSize' = 0
    /\ twentyFourHoursAgo' = 0
    /\ allSignatures' = <<>>
    /\ lastSignature' = <<>>
    /\ signatures' = <<>>
    /\ i' = 0
    /\ found' = "none"

NoDraft ==
    /\ account' = <<>>
    /\ messageResult' = <<>>
    /\ transaction' = NoTransaction

\* the request is answered
Respond(response) ==
    /\ resp' = response
    /\ pc' = "done"

-----------------------------------------------------------------------------
(* The Memo provider's GET, also exported as OPTIONS (memo/route.ts:80-95). *)

MemoMetadata(origin) ==
    [title |-> "Actions Example - Simple On-chain Memo",
     icon |-> <<origin, "/bun_blink.webp">>,
     description |-> "Send a message on-chain using a Memo",
     label |-> "Send Memo"]

MemoGET ==
    /\ pc = "idle"
    /\ \E origin \in Origins, method \in {"memoGET", "memoOPTIONS"} :
        /\ req' = Request(method, origin, NoQuery, NoBody)
        /\ Respond(JsonResponse(MemoMetadata(origin)))
    /\ params' = NoParams
    /\ rpcLog' = <<>>
    /\ NoDraft
    /\ NoScan

-----------------------------------------------------------------------------
(* The Memo provider's POST up to the call of checkForMessage              *)
(* (memo/route.ts:97-122).                                                 *)

\* new PublicKey(body.account) does not throw
AccountOk(body) == body.account # <<>> /\ IsPublicKey(body.account[1])

MemoPOST ==
    /\ pc = "idle"
    /\ \E origin \in Origins, body \in Bodies :
        /\ req' = Request("memoPOST", origin, NoQuery, body)
        /\ IF ~body.json
           THEN \* req.json() rejects: the outer catch
                /\ Respond(Caught(OtherError))
                /\ account' = <<>>
                /\ accountPublicKey' = <<>> /\ message' = <<>> /\ batchSize' = 0
           ELSE IF ~AccountOk(body)
           THEN /\ Respond(ErrorResponse("Invalid \"account\" provided", <<>>))
                /\ account' = <<>>
                /\ accountPublicKey' = <<>> /\ message' = <<>> /\ batchSize' = 0
           ELSE /\ account' = PublicKey(body.account[1])
                /\ resp' = NoResponse
                /\ pc' = "checkForMessage"
                /\ accountPublicKey' = MemoScanAccount
                /\ message' = InitialMessage
                /\ batchSize' = DefaultBatchSize
    /\ params' = NoParams
    /\ messageResult' = <<>>
    /\ transaction' = NoTransaction
    /\ rpcLog' = <<>>
    /\ twentyFourHoursAgo' = 0
    /\ allSignatures' = <<>>
    /\ lastSignature' = <<>>
    /\ signatures' = <<>>
    /\ i' = 0
    /\ found' = "none"

-----------------------------------------------------------------------------
(* checkForMessage (memo/route.ts:23-70).                                  *)

\* a direct call of the function, with arguments of the caller's choice
CallCheckForMessage ==
    /\ pc = "idle"
    /\ \E address \in CallAddresses, marker \in CallMessages, size \in CallBatchSizes :
        /\ accountPublicKey' = address
        /\ message' = marker
        /\ batchSize' = size
    /\ req' = Request("call", "", NoQuery, NoBody)
    /\ resp' = NoResponse
    /\ pc' = "checkForMessage"
    /\ params' = NoParams
    /\ rpcLog' = <<>>
    /\ NoDraft
    /\ twentyFourHoursAgo' = 0
    /\ allSignatures' = <<>>
    /\ lastSignature' = <<>>
    /\ signatures' = <<>>
    /\ i' = 0
    /\ found' = "none"

\* checkForMessage returns (true, false) or throws (error).  Called by the
\* Memo POST, the handler goes on to the next await: it chooses the payload
\* and assembles the draft (memo/route.ts:123-145).
ScanEnds(outcome) ==
    /\ found' = outcome
    /\ IF req.kind = "memoPOST"
       THEN /\ messageResult' = MessageResult(outcome)
            /\ transaction' = [instructions |-> MemoInstructions(MessageResult(outcome)),
                               feePayer |-> <<account>>,
                               recentBlockhash |-> <<>>]
            /\ pc' = "getLatestBlockhash"
       ELSE /\ pc' = "done"
            /\ UNCHANGED <<messageResult, transaction>>
    /\ UNCHANGED <<req, resp, params, account>>

\* memo/route.ts:29-35
CheckForMessage ==
    /\ pc = "checkForMessage"
    /\ \E now \in Nows :
        IF ~IsPublicKey(accountPublicKey)
        THEN \* new PublicKey throws; caught at line 66 and thrown again
             /\ ScanEnds("error")
             /\ UNCHANGED twentyFourHoursAgo
        ELSE /\ twentyFourHoursAgo' = WindowStart(now)
             /\ pc' = "getSignaturesForAddress"
             /\ UNCHANGED <<handlerVars, found>>
    /\ UNCHANGED <<rpcLog, accountPublicKey, message, batchSize,
                   allSignatures, lastSignature, signatures, i>>

\* one turn of the paging loop (memo/route.ts:38-51) and, when the loop ends
\* with nothing accumulated, the return of false (lines 54, 65)
\* The mocked network honours `limit` and `before`; `until` (line 42, a
\* date where the RPC API takes a signature) does not change what it answers.
GetSignaturesForAddress ==
    /\ pc = "getSignaturesForAddress"
    /\ \/ \* the call rejects
          /\ rpcLog' = Append(rpcLog, RpcCall("getSignaturesForAddress", lastSignature,
                                              <<>>, FALSE, FALSE, <<>>))
          /\ ScanEnds("error")
          /\ UNCHANGED <<allSignatures, lastSignature, signatures>>
       \/ \E page \in Pages(lastSignature, signatures,
                            Cardinality({n \in 1..Len(rpcLog) :
                                rpcLog[n].method = "getSignaturesForAddress"})) :
            /\ rpcLog' = Append(rpcLog, RpcCall("getSignaturesForAddress", lastSignature,
                                                <<>>, TRUE, FALSE, <<Len(page)>>))
            /\ signatures' = page
            /\ IF EmptyPage(page)
               THEN UNCHANGED <<allSignatures, lastSignature>>
               ELSE /\ allSignatures' = allSignatures \o SignaturesOf(page)
                    /\ lastSignature' = <<page[Len(page)].signature>>
            /\ IF ~EmptyPage(page) /\ ~PastWindow(page, twentyFourHoursAgo)
               THEN /\ pc' = "getSignaturesForAddress"
                    /\ UNCHANGED <<handlerVars, found>>
               ELSE IF MoreBatches(0, allSignatures')
               THEN /\ pc' = "getParsedTransactions"
                    /\ UNCHANGED <<handlerVars, found>>
               ELSE ScanEnds("false")
    /\ UNCHANGED <<accountPublicKey, message, batchSize, twentyFourHoursAgo, i>>

\* one turn of the batch loop (memo/route.ts:54-63) and, after the last
\* batch, the return of false (line 65)
GetParsedTransactions ==
    /\ pc = "getParsedTransactions"
    /\ LET batch == Batch(allSignatures, i, batchSize)
       IN  \/ \* the call rejects
              /\ rpcLog' = Append(rpcLog, RpcCall("getParsedTransactions", <<>>,
                                                  batch, FALSE, FALSE, <<>>))
              /\ ScanEnds("error")
              /\ UNCHANGED i
           \/ \E transactions \in [1..Len(batch) -> TxRecords] :
                /\ rpcLog' = Append(rpcLog,
                        RpcCall("getParsedTransactions", <<>>, batch, TRUE,
                                \E n \in 1..Len(batch) : Mentions(transactions[n], message),
                                <<>>))
                /\ IF AnyHasMessage(transactions, message)
                   THEN /\ ScanEnds("true")
                        /\ UNCHANGED i
                   ELSE /\ i' = i + batchSize
                        /\ IF MoreBatches(i', allSignatures)
                           THEN /\ pc' = "getParsedTransactions"
                                /\ UNCHANGED <<handlerVars, found>>
                           ELSE ScanEnds("false")
    /\ UNCHANGED <<accountPublicKey, message, batchSize, twentyFourHoursAgo,
                   allSignatures, lastSignature, signatures>>

\* the copy in transfer-sol/route.ts:26-68 is called by no handler; called
\* directly it throws at line 28, where `web3` is not defined
TransferCheckForMessage ==
    /\ pc = "idle"
    /\ \E address \in CallAddresses, marker \in CallMessages :
        /\ accountPublicKey' = address
        /\ message' = marker
    /\ batchSize' = DefaultBatchSize
    /\ req' = Request("transferCall", "", NoQuery, NoBody)
    /\ resp' = NoResponse
    /\ pc' = "done"
    /\ found' = "error"
    /\ params' = NoParams
    /\ rpcLog' = <<>>
    /\ NoDraft
    /\ twentyFourHoursAgo' = 0
    /\ allSignatures' = <<>>
    /\ lastSignature' = <<>>
    /\ signatures' = <<>>
    /\ i' = 0

-----------------------------------------------------------------------------
(* The Transfer provider (transfer-sol/route.ts:76-207).                   *)

Href(to, amount) == [path |-> "/api/actions/transfer-sol", to |-> to, amount |-> amount]

\* transfer-sol/route.ts:81-118
TransferMetadata(origin, toPubkey) ==
    [title |-> "Actions Example - Transfer Native SOL",
     icon |-> <<origin, "/bun_blink.webp">>,
     description |-> "Transfer SOL to another Solana wallet",
     label |-> "Transfer",
     links |-> << [label |-> "Send 1 SOL", href |-> Href(ToBase58(toPubkey), "1")],
                  [label |-> "Send 5 SOL", href |-> Href(ToBase58(toPubkey), "5")],
                  [label |-> "Send 10 SOL", href |-> Href(ToBase58(toPubkey), "10")],
                  [label |-> "Send SOL", href |-> Href(ToBase58(toPubkey), "{amount}")] >>]

\* GET, also exported as OPTIONS (transfer-sol/route.ts:76-136)
TransferGET ==
    /\ pc = "idle"
    /\ \E origin \in Origins, query \in Queries, method \in {"transferGET", "transferOPTIONS"} :
        /\ req' = Request(method, origin, query, NoBody)
        /\ params' = validatedQueryParams(query)
        /\ IF ~params'.ok
           THEN Respond(Caught(StringError(params'.reason, <<>>)))
           ELSE Respond(JsonResponse(TransferMetadata(origin, params'.toPubkey)))
    /\ rpcLog' = <<>>
    /\ NoDraft
    /\ NoScan

\* POST up to the first network call (transfer-sol/route.ts:138-158)
TransferPOST ==
    /\ pc = "idle"
    /\ \E origin \in Origins, query \in Queries, body \in Bodies :
        /\ req' = Request("transferPOST", origin, query, body)
        /\ params' = validatedQueryParams(query)
        /\ IF ~params'.ok
           THEN /\ Respond(Caught(StringError(params'.reason, <<>>)))
                /\ account' = <<>>
           ELSE IF ~body.json
           THEN \* req.json() rejects
                /\ Respond(Caught(OtherError))
                /\ account' = <<>>
           ELSE IF ~AccountOk(body)
           THEN /\ Respond(ErrorResponse("Invalid \"account\" provided", <<>>))
                /\ account' = <<>>
           ELSE /\ account' = PublicKey(body.account[1])
                /\ resp' = NoResponse
                /\ pc' = "getMinimumBalanceForRentExemption"
    /\ messageResult' = <<>>
    /\ transaction' = NoTransaction
    /\ rpcLog' = <<>>
    /\ NoScan

\* the rent check and the assembly of the draft (transfer-sol/route.ts:160-180)
GetMinimumBalanceForRentExemption ==
    /\ pc = "getMinimumBalanceForRentExemption"
    /\ \/ \* the call rejects
          /\ rpcLog' = Append(rpcLog, RpcCall("getMinimumBalanceForRentExemption",
                                              <<>>, <<>>, FALSE, FALSE, <<>>))
          /\ Respond(Caught(OtherError))
          /\ UNCHANGED transaction
       \/ \E minimumBalance \in MinimumBalances :
            /\ rpcLog' = Append(rpcLog, RpcCall("getMinimumBalanceForRentExemption",
                                                <<>>, <<>>, TRUE, FALSE,
                                                <<minimumBalance>>))
            /\ IF NotRentExempt(params.amount, minimumBalance)
               THEN /\ Respond(Caught(StringError("account may not be rent exempt: ",
                                                  ToBase58(params.toPubkey))))
                    /\ UNCHANGED transaction
               ELSE \/ /\ transaction' =
                           [instructions |-> TransferInstructions(account, params.toPubkey,
                                                                  ToLamports(params.amount)),
                            feePayer |-> <<account>>,
                            recentBlockhash |-> <<>>]
                       /\ resp' = resp
                       /\ pc' = "getLatestBlockhash"
                    \/ \* lamports that are NaN: SystemProgram.transfer of some
                       \* versions of the library throws (BigInt(NaN))
                       /\ ToLamports(params.amount).nan
                       /\ Respond(Caught(OtherError))
                       /\ UNCHANGED transaction
    /\ UNCHANGED <<req, params, account, messageResult, scanVars>>

-----------------------------------------------------------------------------
(* The end of both POST handlers (memo/route.ts:147-162,                   *)
(* transfer-sol/route.ts:182-197).                                         *)

GetLatestBlockhash ==
    /\ pc = "getLatestBlockhash"
    /\ \/ \* the call rejects
          /\ rpcLog' = Append(rpcLog, RpcCall("getLatestBlockhash", <<>>, <<>>,
                                              FALSE, FALSE, <<>>))
          /\ Respond(Caught(OtherError))
          /\ UNCHANGED transaction
       \/ \E blockhash \in Blockhashes :
            /\ rpcLog' = Append(rpcLog, RpcCall("getLatestBlockhash", <<>>, <<>>,
                                                TRUE, FALSE, <<blockhash>>))
            /\ transaction' = [transaction EXCEPT !.recentBlockhash = <<blockhash>>]
            /\ resp' = resp
            /\ pc' = "createPostResponse"
    /\ UNCHANGED <<req, params, account, messageResult, scanVars>>

\* the message of the POST response (memo/route.ts:154, transfer-sol/route.ts:189)
PostMessage ==
    IF req.kind = "memoPOST"
    THEN [text |-> "Post this memo on-chain", amount |-> NaN, address |-> <<>>]
    ELSE [text |-> "Send ${amount} SOL to ${toPubkey.toBase58()}",
          amount |-> params.amount, address |-> ToBase58(params.toPubkey)]

CreatePostResponse ==
    /\ pc = "createPostResponse"
    /\ IF HasNonMemoInstruction(transaction)
       THEN Respond(JsonResponse([transaction |-> transaction, message |-> PostMessage]))
       ELSE Respond(Caught(OtherError))
    /\ UNCHANGED <<req, params, account, messageResult, transaction, rpcLog, scanVars>>

-----------------------------------------------------------------------------

Next ==
    \/ MemoGET
    \/ MemoPOST
    \/ CallCheckForMessage
    \/ TransferCheckForMessage
    \/ CheckForMessage
    \/ GetSignaturesForAddress
    \/ GetParsedTransactions
    \/ TransferGET
    \/ TransferPOST
    \/ GetMinimumBalanceForRentExemption
    \/ GetLatestBlockhash
    \/ CreatePostResponse

Spec == Init /\ [][Next]_vars

-----------------------------------------------------------------------------
(* What the claims speak of.                                               *)

Answered == pc = "done" /\ resp.status # 0

CallsOf(method) == {n \in 1..Len(rpcLog) : rpcLog[n].method = method}

LastCall == rpcLog[Len(rpcLog)]

\* the payloads of the memo instructions of a draft
MemoData(draft) ==
    {draft.instructions[n].data :
        n \in {m \in 1..Len(draft.instructions) : draft.instructions[m].program = "Memo"}}

UnknownError == [status |-> 400, text |-> "An unknown error occurred",
                 address |-> <<>>, json |-> <<>>]

\* the batches handed to getParsedTransactions so far, one after the other
RECURSIVE FetchedSignatures(_)
FetchedSignatures(log) ==
    IF log = <<>> THEN <<>>
    ELSE (IF Head(log).method = "getParsedTransactions" THEN Head(log).batch ELSE <<>>)
            \o FetchedSignatures(Tail(log))

\* a page has been answered and checkForMessage has not ended
AfterPage ==
    /\ found = "none"
    /\ pc \in {"getSignaturesForAddress", "getParsedTransactions"}
    /\ CallsOf("getSignaturesForAddress") # {}

OldestBlockTime == signatures[Len(signatures)].blockTime

-----------------------------------------------------------------------------
\* C1: in the Memo POST with a valid caller account, the memo payload is
\* "second message" when the scan returned true and "initial message" when
\* it returned false or threw; a scan that threw is not answered as a
\* failure: the handler goes on to the blockhash and the response, and what
\* it answers is what it answers after a scan that returned false.
C1_PayloadFollowsScan ==
    (req.kind = "memoPOST" /\ found # "none") =>
        /\ messageResult = (IF found = "true" THEN SecondMessage ELSE InitialMessage)
        /\ MemoData(transaction) = {messageResult}
        /\ transaction.feePayer = <<account>>
        /\ \/ pc \in {"getLatestBlockhash", "createPostResponse"} /\ resp.status = 0
           \/ /\ Answered
              /\ resp.status = 200
              /\ resp.json[1].transaction = transaction
              /\ resp.json[1].message.text = "Post this memo on-chain"
           \/ /\ Answered
              /\ resp = UnknownError
              /\ LastCall.method = "getLatestBlockhash" /\ ~LastCall.ok

C1_Witness ==
    /\ req.kind = "memoPOST"
    /\ found = "error"
    /\ resp.status = 200
    /\ MemoData(resp.json[1].transaction) = {InitialMessage}

-----------------------------------------------------------------------------
\* C2, as claimed: every POST to either provider whose body carries a
\* malformed account is answered 400 with the body
\* `Invalid "account" provided`, whatever the query string.
MalformedAccountPost ==
    /\ req.kind \in {"memoPOST", "transferPOST"}
    /\ req.body.json
    /\ req.body.account # <<>>
    /\ req.body.account[1] \in MalformedAccounts

C2_AsClaimed ==
    MalformedAccountPost =>
        /\ Answered
        /\ resp.status = 400
        /\ resp.text = "Invalid \"account\" provided"

\* C2, amended: such a POST is answered 400; the body is
\* `Invalid "account" provided` in the Memo provider, and in the Transfer
\* provider when the query string passes validation; a Transfer POST whose
\* query string fails validation is answered with the validation reason.
C2_InvalidAccount ==
    MalformedAccountPost =>
        /\ Answered
        /\ resp.status = 400
        /\ resp.json = <<>>
        /\ IF req.kind = "transferPOST" /\ ~params.ok
           THEN /\ resp.text = params.reason
                /\ resp.text \in {"Invalid input query parameter: to",
                                  "Invalid input query parameter: amount"}
           ELSE resp.text = "Invalid \"account\" provided"

C2_Witness ==
    /\ MalformedAccountPost
    /\ req.kind = "transferPOST"
    /\ params.ok
    /\ Truthy(req.query.amount)
    /\ resp.text = "Invalid \"account\" provided"

-----------------------------------------------------------------------------
\* C3, as claimed: in the Transfer provider, an `amount` parameter that is
\* given and does not parse to a number greater than zero fails validation
\* with "Invalid input query parameter: amount", and GET and POST answer 400
\* with that reason; a positive number validates with its value, an absent
\* parameter with the default amount.  (Stated for requests whose `to` is
\* absent or valid.)
TransferRequest ==
    /\ req.kind \in {"transferGET", "transferOPTIONS", "transferPOST"}
    /\ ~Truthy(req.query.to) \/ req.query.to[1] \in WellFormedAccounts

C3_AsClaimed ==
    TransferRequest =>
        IF req.query.amount = <<>>
        THEN params.ok /\ params.amount = DEFAULT_SOL_AMOUNT
        ELSE IF req.query.amount[1] # <<>>
        THEN LET parsed == ParseFloat(req.query.amount[1])
             IN  IF ~parsed.nan /\ parsed.val > 0
                 THEN params.ok /\ params.amount = parsed
                 ELSE /\ ~params.ok
                      /\ params.reason = "Invalid input query parameter: amount"
                      /\ Answered
                      /\ resp.status = 400
                      /\ resp.text = "Invalid input query parameter: amount"
        ELSE TRUE

-----------------------------------------------------------------------------
\* C4, as claimed: in the Transfer POST with valid query parameters and a
\* valid caller account, once the network has returned the minimum balance:
\* the request is answered 400 with a reason that holds the destination
\* exactly when amount * LAMPORTS_PER_SOL is below the minimum, and then no
\* blockhash is fetched and no draft is made; otherwise the answer is 200
\* with a draft of one transfer of amount * LAMPORTS_PER_SOL from the caller
\* to the destination and the message "Send <amount> SOL to <destination>".
RentChecked ==
    /\ req.kind = "transferPOST"
    /\ params.ok
    /\ ~params.amount.nan
    /\ req.body.json
    /\ req.body.account # <<>>
    /\ req.body.account[1] \in WellFormedAccounts
    /\ rpcLog # <<>>
    /\ rpcLog[1].method = "getMinimumBalanceForRentExemption"
    /\ rpcLog[1].ok

DestinationText == IF Truthy(req.query.to) THEN req.query.to[1] ELSE DefaultAddrStr

RequestedLamports == params.amount.val * (LAMPORTS_PER_SOL \div Scale)

RentRejected ==
    /\ Answered
    /\ resp.status = 400
    /\ resp.text = "account may not be rent exempt: "
    /\ resp.address = DestinationText
    /\ CallsOf("getLatestBlockhash") = {}
    /\ transaction = NoTransaction

TransferAnswered ==
    /\ resp.status = 200
    /\ Len(resp.json[1].transaction.instructions) = 1
    /\ resp.json[1].transaction.instructions[1].program = "System"
    /\ resp.json[1].transaction.instructions[1].keys
          = <<account, Decoded(DestinationText)[1]>>
    /\ resp.json[1].transaction.instructions[1].amount = Num(RequestedLamports)
    /\ account = Decoded(req.body.account[1])[1]
    /\ resp.json[1].message.text = "Send ${amount} SOL to ${toPubkey.toBase58()}"
    /\ resp.json[1].message.amount = params.amount
    /\ resp.json[1].message.address = DestinationText

C4_AsClaimed ==
    RentChecked =>
        IF RequestedLamports < rpcLog[1].result[1]
        THEN RentRejected
        ELSE Answered => TransferAnswered

\* C4, amended: ... otherwise, when the blockhash is fetched, the answer is
\* 200 with that draft and that message; when fetching the blockhash fails,
\* the answer is 400 "An unknown error occurred", without the destination.
C4_RentCheck ==
    RentChecked =>
        IF RequestedLamports < rpcLog[1].result[1]
        THEN RentRejected
        ELSE Answered =>
                \/ TransferAnswered /\ LastCall.method = "getLatestBlockhash" /\ LastCall.ok
                \/ resp = UnknownError /\ LastCall.method = "getLatestBlockhash" /\ ~LastCall.ok

C4_Witness ==
    /\ RentChecked
    /\ RentRejected
    /\ Truthy(req.query.amount)
    /\ Truthy(req.query.to)

-----------------------------------------------------------------------------
\* C5, as claimed: paging ends after a page that is empty or whose oldest
\* (last) signature has a timestamp at or before the window start; so it
\* ends after a page whose oldest timestamp is the window start itself.
C5_AsClaimed ==
    (AfterPage /\ signatures # <<>> /\ OldestBlockTime # <<>>
        /\ OldestBlockTime[1] * 1000 <= twentyFourHoursAgo)
    => pc # "getSignaturesForAddress"

\* C5, amended: paging ends after a page that is empty or whose oldest
\* timestamp is before the window start; after a page whose oldest timestamp
\* is the window start itself, or later, the next page is requested.
C5_PagingStops ==
    AfterPage =>
        /\ signatures = <<>> => pc = "getParsedTransactions"
        /\ (signatures # <<>> /\ OldestBlockTime # <<>>) =>
              IF OldestBlockTime[1] * 1000 < twentyFourHoursAgo
              THEN pc = "getParsedTransactions"
              ELSE pc = "getSignaturesForAddress"
        /\ pc = "getSignaturesForAddress" =>
              /\ lastSignature = <<signatures[Len(signatures)].signature>>
              /\ signatures # <<>>

C5_Witness ==
    /\ AfterPage
    /\ signatures # <<>>
    /\ OldestBlockTime # <<>>
    /\ OldestBlockTime[1] * 1000 = twentyFourHoursAgo
    /\ pc = "getSignaturesForAddress"

-----------------------------------------------------------------------------
\* C6: when the first signature page is empty, checkForMessage returns false
\* with one getSignaturesForAddress call and no getParsedTransactions call.
FirstPageEmpty ==
    /\ rpcLog # <<>>
    /\ rpcLog[1].method = "getSignaturesForAddress"
    /\ rpcLog[1].ok
    /\ rpcLog[1].result = <<0>>

C6_EmptyHistory ==
    FirstPageEmpty =>
        /\ found = "false"
        /\ pc \notin {"getSignaturesForAddress", "getParsedTransactions"}
        /\ Cardinality(CallsOf("getSignaturesForAddress")) = 1
        /\ CallsOf("getParsedTransactions") = {}

C6_Witness ==
    /\ FirstPageEmpty
    /\ req.kind = "call"
    /\ found = "false"
    /\ pc = "done"

-----------------------------------------------------------------------------
\* C7: whenever a POST of either provider is about to call
\* createPostResponse, the draft has an instruction that is no memo (the
\* priority fee in the Memo provider, the transfer in the Transfer
\* provider), its fee payer is the caller's account, and its recent
\* blockhash is the one getLatestBlockhash returned in this request.
C7_DraftComplete ==
    pc = "createPostResponse" =>
        /\ req.kind \in {"memoPOST", "transferPOST"}
        /\ \E n \in 1..Len(transaction.instructions) :
              transaction.instructions[n].program
                 = (IF req.kind = "memoPOST" THEN "ComputeBudget" ELSE "System")
        /\ transaction.feePayer = <<account>>
        /\ req.body.account # <<>>
        /\ <<account>> = Decoded(req.body.account[1])
        /\ LastCall.method = "getLatestBlockhash"
        /\ LastCall.ok
        /\ transaction.recentBlockhash = LastCall.result
        /\ LastCall.result # <<>>

C7_Witness ==
    /\ pc = "createPostResponse"
    /\ req.kind = "memoPOST"
    /\ Len(transaction.instructions) = 2

-----------------------------------------------------------------------------
\* C8, as claimed: after a page that is not empty and whose last signature
\* has no timestamp, paging goes on: the next page is requested, after that
\* page's last signature.
C8_AsClaimed ==
    (AfterPage /\ signatures # <<>> /\ OldestBlockTime = <<>>) =>
        /\ pc = "getSignaturesForAddress"
        /\ lastSignature = <<signatures[Len(signatures)].signature>>

-----------------------------------------------------------------------------
\* C9: after paging, the accumulated signatures are fetched in order, in
\* consecutive batches of at most batchSize, each signature in one batch;
\* checkForMessage returns true if and only if a fetched record has a log
\* line that holds the marker, at the first such batch; it returns false
\* only after all batches were fetched without one.
Fetches == CallsOf("getParsedTransactions")

C9_BatchScan ==
    req.kind \in {"call", "memoPOST"} =>
        /\ \A n \in Fetches :
              /\ Len(rpcLog[n].batch) >= 1
              /\ Len(rpcLog[n].batch) <= batchSize
              /\ (rpcLog[n].hit \/ ~rpcLog[n].ok) => n = Len(rpcLog)
        /\ FetchedSignatures(rpcLog)
              = SubSeq(allSignatures, 1, Len(FetchedSignatures(rpcLog)))
        /\ pc = "getParsedTransactions" =>
              /\ i = Len(FetchedSignatures(rpcLog))
              /\ i < Len(allSignatures)
        /\ found = "true" <=> (\E n \in Fetches : rpcLog[n].hit)
        /\ found = "false" =>
              /\ FetchedSignatures(rpcLog) = allSignatures
              /\ \A n \in 1..Len(rpcLog) : rpcLog[n].ok

C9_Witness ==
    /\ req.kind = "call"
    /\ found = "true"
    /\ Cardinality(Fetches) >= 2
    /\ Len(FetchedSignatures(rpcLog)) < Len(allSignatures)

-----------------------------------------------------------------------------
\* C10: the Memo POST scans the placeholder text, which is no account: with
\* a valid caller account, checkForMessage throws before any lookup, no
\* getSignaturesForAddress or getParsedTransactions call is made, and the
\* memo payload is "initial message".
C10_PlaceholderScan ==
    req.kind = "memoPOST" =>
        /\ pc \notin {"getSignaturesForAddress", "getParsedTransactions"}
        /\ found \in {"none", "error"}
        /\ CallsOf("getSignaturesForAddress") = {}
        /\ CallsOf("getParsedTransactions") = {}
        /\ MemoData(transaction) \subseteq {InitialMessage}
        /\ (pc \in {"getLatestBlockhash", "createPostResponse"} \/ resp.status = 200) =>
              /\ found = "error"
              /\ MemoData(transaction) = {InitialMessage}

C10_Witness ==
    /\ req.kind = "memoPOST"
    /\ resp.status = 200
    /\ MemoData(resp.json[1].transaction) = {InitialMessage}
    /\ rpcLog = <<RpcCall("getLatestBlockhash", <<>>, <<>>, TRUE, FALSE,
                          resp.json[1].transaction.recentBlockhash)>>

====
